---- MODULE Spec2Model ----
(***************************************************************************)
(* Model of src/contract/transaction.rs: the TransactionBuilder, the       *)
(* PrepareFuture that turns a builder into a Request, and the              *)
(* ExecutionState driver behind ExecuteFuture and ExecuteConfirmFuture.    *)
(* One transaction is followed from TransactionBuilder::new to the         *)
(* terminal outcome of the future (or to its drop).  The node is the       *)
(* environment: it answers the calls the futures have issued.              *)
(***************************************************************************)
EXTENDS Integers, Sequences, FiniteSets

\* ------------------------------------------------------------------ bounds
\* U256 values range over 0..MaxU256
MaxU256 == 1
\* explicit chain ids a caller may pass range over 1..MaxChainId
MaxChainId == 2

\* ------------------------------------------------------------- value sets
U256 == 0 .. MaxU256
ChainIds == 1 .. MaxChainId

ZeroAddress == "0x000"
Targets == {"0xABC"}
Accounts == {"0x111", "0x222"}
CallData == {"d1"}
Conditions == {"block7"}
Keys == {"k1", "k2", "kBad"}
Durations == {"7s"}
Confirmations == {0, 1}

\* Strings are sequences of characters.
Digits == <<"0", "1", "2", "3", "4", "5", "6", "7", "8", "9">>

\* What net.version() may return.
VersionStrings ==
    { <<"3">>, <<"1", "2">>, <<"+", "1">>, <<>>, <<"-", "1">>, <<"n", "a", "n">> }

None == [tag |-> "None"]
Some(v) == [tag |-> "Some", v |-> v]
Option(S) == {None} \cup {Some(v) : v \in S}

Ok(v) == [tag |-> "Ok", v |-> v]
Err(e) == [tag |-> "Err", e |-> e]

\* Poll<T>
Pending == [tag |-> "Pending"]
Ready(v) == [tag |-> "Ready", v |-> v]

\* ExecutionError, by origin
Web3Error(method) == [kind |-> "Web3", method |-> method]
ParseError == [kind |-> "Parse", method |-> "-"]
SignError == [kind |-> "Sign", method |-> "-"]

\* enum Sign
SignLocal(from, condition) == [tag |-> "Local", from |-> from, condition |-> condition]
SignOffline(key, chain_id) == [tag |-> "Offline", key |-> key, chain_id |-> chain_id]
Signs ==
    {SignLocal(a, c) : a \in Accounts, c \in Option(Conditions)}
        \cup {SignOffline(k, c) : k \in Keys, c \in Option(ChainIds)}

\* enum Request
RequestTx(tx) == [tag |-> "Tx", tx |-> tx]
RequestRaw(raw) == [tag |-> "Raw", raw |-> raw]

\* ------------------------------------------------- conversions of chain id
DigitOf(c) == (CHOOSE i \in 1 .. 10 : Digits[i] = c) - 1
IsDigit(c) == \E i \in 1 .. 10 : Digits[i] = c

RECURSIVE DigitsToString(_)
DigitsToString(n) ==
    IF n < 10 THEN <<Digits[n + 1]>>
    ELSE DigitsToString(n \div 10) \o <<Digits[(n % 10) + 1]>>

\* u64::to_string
u64_to_string(id) == DigitsToString(id)

RECURSIVE ParseDigits(_, _)
ParseDigits(s, acc) ==
    IF s = <<>> THEN Ok(acc)
    ELSE IF ~IsDigit(Head(s)) THEN Err(ParseError)
    ELSE ParseDigits(Tail(s), acc * 10 + DigitOf(Head(s)))

\* str::parse for an unsigned integer: an optional "+" and at least one digit
str_parse(s) ==
    IF s = <<>> THEN Err(ParseError)
    ELSE IF Head(s) = "+" THEN
        IF Tail(s) = <<>> THEN Err(ParseError) ELSE ParseDigits(Tail(s), 0)
    ELSE ParseDigits(s, 0)

\* ethsign: the address of the public key of a secret key
KeyAddress(key) == IF key = "k1" THEN "0x111" ELSE IF key = "k2" THEN "0x222" ELSE "0xBAD"

\* TransactionData::sign: the signature of tx by key for chain_id, or a
\* signing error when the key cannot sign
TransactionData_sign(tx, key, chain_id) ==
    IF key = "kBad" THEN Err(SignError)
    ELSE Ok([signed |-> tx, key |-> key, chain_id |-> chain_id])

\* ------------------------------------------------------------------ state
VARIABLES
    phase,      \* "building", "executing", "done", "dropped", "panicked"
    builder,    \* the TransactionBuilder
    confirm,    \* None for execute(); Some(<<interval, confirmations>>)
    state,      \* ExecutionState: "Prepare" or "Send"
    prepare,    \* the PrepareFuture held by ExecutionState::Prepare
    send,       \* the call the send future of ExecutionState::Send waits for
    calls,      \* calls issued to the node, in order, with their responses
    outcome,    \* what the top-level future returned: None or Some(Result)
    polled,     \* the top-level future has been polled at least once
    lastSet,    \* history: the argument of the last call of each setter
    owner       \* history: which operation issued each call, when several
                \* operations share the node (SpecTwo); empty otherwise

vars == <<phase, builder, confirm, state, prepare, send, calls, outcome, polled, lastSet,
          owner>>

NoFuture == [tag |-> "NoFuture"]

\* ---------------------------------------------------------------- builder
TransactionBuilder_new(address, data) ==
    [address |-> address, data |-> data, gas |-> None, gas_price |-> None,
     value |-> None, nonce |-> None, sign |-> None]

Init ==
    /\ phase = "building"
    /\ \E a \in Targets, d \in CallData : builder = TransactionBuilder_new(a, d)
    /\ confirm = None
    /\ state = "Prepare"
    /\ prepare = NoFuture
    /\ send = 0
    /\ calls = <<>>
    /\ outcome = None
    /\ polled = FALSE
    /\ lastSet = [sign |-> None, gas |-> None, gas_price |-> None, value |-> None,
                  nonce |-> None]
    /\ owner = <<>>

Builder_sign(b, value) == [b EXCEPT !.sign = Some(value)]
Builder_gas(b, value) == [b EXCEPT !.gas = Some(value)]
\* mutant of Builder_gas_price: the value lands in the gas field
Builder_gas_price_WritesGas(b, value) == [b EXCEPT !.gas = Some(value)]
Builder_gas_price(b, value) == [b EXCEPT !.gas_price = Some(value)]
Builder_value(b, value) == [b EXCEPT !.value = Some(value)]
Builder_nonce(b, value) == [b EXCEPT !.nonce = Some(value)]

SetterFrame ==
    UNCHANGED <<phase, confirm, state, prepare, send, calls, outcome, polled, owner>>

SetSign ==
    /\ phase = "building"
    /\ \E v \in Signs :
          /\ builder' = Builder_sign(builder, v)
          /\ lastSet' = [lastSet EXCEPT !.sign = Some(v)]
    /\ SetterFrame

SetGas ==
    /\ phase = "building"
    /\ \E v \in U256 :
          /\ builder' = Builder_gas(builder, v)
          /\ lastSet' = [lastSet EXCEPT !.gas = Some(v)]
    /\ SetterFrame

SetGasPrice ==
    /\ phase = "building"
    /\ \E v \in U256 :
          /\ builder' = Builder_gas_price(builder, v)
          /\ lastSet' = [lastSet EXCEPT !.gas_price = Some(v)]
    /\ SetterFrame

SetValue ==
    /\ phase = "building"
    /\ \E v \in U256 :
          /\ builder' = Builder_value(builder, v)
          /\ lastSet' = [lastSet EXCEPT !.value = Some(v)]
    /\ SetterFrame

SetNonce ==
    /\ phase = "building"
    /\ \E v \in U256 :
          /\ builder' = Builder_nonce(builder, v)
          /\ lastSet' = [lastSet EXCEPT !.nonce = Some(v)]
    /\ SetterFrame

\* ------------------------------------------------------------ node calls
Call(method, params) == [method |-> method, params |-> params, resp |-> Pending]

\* CompatCallFuture::poll: ready once the node has answered call i
CompatCallFuture_poll(cs, i) ==
    IF cs[i].resp = Pending THEN Pending ELSE Ready(cs[i].resp)

\* MaybeReady: a value that is already there, or a future for it
MaybeReady_ready(r) == [tag |-> "Ready", out |-> r, call |-> 0]
MaybeReady_future(i) == [tag |-> "Future", out |-> None, call |-> i]
MaybeReady_poll(m, cs) ==
    IF m.tag = "Ready" THEN Ready(m.out) ELSE CompatCallFuture_poll(cs, m.call)

\* mutant of Maybe: the call is issued even when the caller gave the value
Maybe_AlwaysQuery(o, cs, call) ==
    [fut |-> IF o.tag = "Some" THEN MaybeReady_ready(Ok(o.v))
             ELSE MaybeReady_future(Len(cs) + 1),
     calls |-> Append(cs, call)]

\* mutant of Maybe: the node is asked even when the caller gave the value,
\* and the node's answer is the one used
Maybe_PreferNode(o, cs, call) ==
    [fut |-> MaybeReady_future(Len(cs) + 1), calls |-> Append(cs, call)]

\* the maybe! macro of from_builder: the caller's value, or one call issued
Maybe(o, cs, call) ==
    IF o.tag = "Some"
    THEN [fut |-> MaybeReady_ready(Ok(o.v)), calls |-> cs]
    ELSE [fut |-> MaybeReady_future(Len(cs) + 1), calls |-> Append(cs, call)]

\* a poll that panics instead of returning
Panic == [tag |-> "Panic"]

\* ------------------------------------------------------------- TryJoin4
\* each joined future is kept until it is done, then its output is kept
\* until it is taken
SlotFuture(m) == [tag |-> "Future", fut |-> m, out |-> None]
SlotDone(r) == [tag |-> "Done", fut |-> None, out |-> r]
SlotGone == [tag |-> "Gone", fut |-> None, out |-> None]

try_join4(f1, f2, f3, f4) == <<SlotFuture(f1), SlotFuture(f2), SlotFuture(f3), SlotFuture(f4)>>

MaybeDone_poll(slot, cs) ==
    IF slot.tag # "Future" THEN slot
    ELSE LET r == MaybeReady_poll(slot.fut, cs)
         IN IF r = Pending THEN slot ELSE SlotDone(r.v)

AllDone(slots) == \A i \in 1 .. Len(slots) : slots[i].tag = "Done"

\* mutant of TryJoin_poll: the join yields as soon as one future is done
RECURSIVE TryJoin_poll_Race(_, _, _)
TryJoin_poll_Race(slots, i, cs) ==
    IF i > Len(slots) THEN
        IF \E k \in 1 .. Len(slots) : slots[k].tag = "Done"
        THEN [slots |-> [k \in 1 .. Len(slots) |-> SlotGone],
              res |-> Ready(Ok([k \in 1 .. Len(slots) |->
                         IF slots[k].tag = "Done" THEN slots[k].out.v
                         ELSE IF k = 4 THEN <<"1">> ELSE 0]))]
        ELSE [slots |-> slots, res |-> Pending]
    ELSE LET s == MaybeDone_poll(slots[i], cs)
         IN IF s.tag = "Done" /\ s.out.tag = "Err"
            THEN [slots |-> [slots EXCEPT ![i] = SlotGone], res |-> Ready(s.out)]
            ELSE TryJoin_poll_Race([slots EXCEPT ![i] = s], i + 1, cs)

\* mutant of TryJoin_poll: a failure is reported only when no joined future
\* is pending any more
RECURSIVE TryJoin_poll_WaitAll(_, _, _)
TryJoin_poll_WaitAll(slots, i, cs) ==
    IF i > Len(slots) THEN
        IF \E k \in 1 .. Len(slots) : slots[k].tag # "Done"
        THEN [slots |-> slots, res |-> Pending]
        ELSE IF \E k \in 1 .. Len(slots) : slots[k].out.tag = "Err"
        THEN [slots |-> slots,
              res |-> Ready(slots[CHOOSE k \in 1 .. Len(slots) :
                                    /\ slots[k].out.tag = "Err"
                                    /\ \A j \in 1 .. k - 1 : slots[j].out.tag # "Err"].out)]
        ELSE [slots |-> [k \in 1 .. Len(slots) |-> SlotGone],
              res |-> Ready(Ok([k \in 1 .. Len(slots) |-> slots[k].out.v]))]
    ELSE TryJoin_poll_WaitAll([slots EXCEPT ![i] = MaybeDone_poll(slots[i], cs)], i + 1, cs)

\* mutant of TryJoin_poll: the chain id future parses its string itself, so
\* a string that does not parse fails the join like a failed query
RECURSIVE TryJoin_poll_EagerParse(_, _, _)
TryJoin_poll_EagerParse(slots, i, cs) ==
    IF i > Len(slots) THEN
        IF AllDone(slots)
        THEN [slots |-> [k \in 1 .. Len(slots) |-> SlotGone],
              res |-> Ready(Ok([k \in 1 .. Len(slots) |-> slots[k].out.v]))]
        ELSE [slots |-> slots, res |-> Pending]
    ELSE LET s == MaybeDone_poll(slots[i], cs)
         IN IF s.tag = "Done" /\ s.out.tag = "Err"
            THEN [slots |-> [slots EXCEPT ![i] = SlotGone], res |-> Ready(s.out)]
            ELSE IF i = 4 /\ s.tag = "Done" /\ str_parse(s.out.v).tag = "Err"
            THEN [slots |-> [slots EXCEPT ![i] = SlotGone],
                  res |-> Ready(str_parse(s.out.v))]
            ELSE TryJoin_poll_EagerParse([slots EXCEPT ![i] = s], i + 1, cs)

\* TryJoin4::poll from slot i on: the joined futures are polled in order;
\* the first one found to have failed ends the join with its error, and
\* the join succeeds only when all of them are done.  Polling a future whose
\* output has been taken panics.
RECURSIVE TryJoin_poll(_, _, _)
TryJoin_poll(slots, i, cs) ==
    IF i > Len(slots) THEN
        IF AllDone(slots)
        THEN [slots |-> [k \in 1 .. Len(slots) |-> SlotGone],
              res |-> Ready(Ok([k \in 1 .. Len(slots) |-> slots[k].out.v]))]
        ELSE [slots |-> slots, res |-> Pending]
    ELSE IF slots[i].tag = "Gone" THEN [slots |-> slots, res |-> Panic]
    ELSE LET s == MaybeDone_poll(slots[i], cs)
         IN IF s.tag = "Done" /\ s.out.tag = "Err"
            THEN [slots |-> [slots EXCEPT ![i] = SlotGone], res |-> Ready(s.out)]
            ELSE TryJoin_poll([slots EXCEPT ![i] = s], i + 1, cs)

\* -------------------------------------------------------- PrepareFuture
TransactionRequest(from, b, condition) ==
    [from |-> from, to |-> Some(b.address), gas |-> b.gas, gas_price |-> b.gas_price,
     value |-> b.value, data |-> Some(b.data), nonce |-> b.nonce, condition |-> condition]

CallRequest(from, b) ==
    [from |-> Some(from), to |-> b.address, gas |-> None, gas_price |-> None,
     value |-> b.value, data |-> Some(b.data)]

PrepareTxDefaultAccount(request, inner) ==
    [tag |-> "TxDefaultAccount", request |-> request, inner |-> inner,
     key |-> None, address |-> None, value |-> None, data |-> None, params |-> <<>>]
PrepareTx(request) ==
    [tag |-> "Tx", request |-> request, inner |-> 0,
     key |-> None, address |-> None, value |-> None, data |-> None, params |-> <<>>]
PrepareRaw(key, address, value, data, params) ==
    [tag |-> "Raw", request |-> None, inner |-> 0,
     key |-> key, address |-> address, value |-> value, data |-> data, params |-> params]

unwrap_or_zero(o) == IF o.tag = "Some" THEN o.v ELSE 0

\* the Sign::Offline arm of PrepareFuture::from_builder
FromBuilderOffline(b, cs, key, chain_id) ==
    LET from == KeyAddress(key)
        gas == Maybe(b.gas, cs, Call("eth_estimateGas", <<CallRequest(from, b), None>>))
        gas_price == Maybe(b.gas_price, gas.calls, Call("eth_gasPrice", <<>>))
        nonce == Maybe(b.nonce, gas_price.calls,
                       Call("eth_getTransactionCount", <<from, None>>))
        chain == Maybe(IF chain_id = None THEN None ELSE Some(u64_to_string(chain_id.v)),
                       nonce.calls, Call("net_version", <<>>))
    IN  [prepare |-> PrepareRaw(key, b.address, unwrap_or_zero(b.value), b.data,
                         try_join4(gas.fut, gas_price.fut, nonce.fut, chain.fut)),
         calls |-> chain.calls]

\* the None arm of PrepareFuture::from_builder
FromBuilderDefault(from, b, cs, condition) ==
    [prepare |-> PrepareTxDefaultAccount(
                     Some(TransactionRequest(from, b, condition)), Len(cs) + 1),
     calls |-> Append(cs, Call("eth_accounts", <<>>))]

\* mutant of PrepareFuture_from_builder: the account list is queried for
\* Sign::Local too
PrepareFuture_from_builder_LocalQueries(b, cs) ==
    IF b.sign = None THEN FromBuilderDefault(ZeroAddress, b, cs, None)
    ELSE IF b.sign.v.tag = "Local" THEN
        FromBuilderDefault(b.sign.v.from, b, cs, b.sign.v.condition)
    ELSE FromBuilderOffline(b, cs, b.sign.v.key, b.sign.v.chain_id)

\* PrepareFuture::from_builder: the future, and the calls after it was made
PrepareFuture_from_builder(b, cs) ==
    IF b.sign = None THEN FromBuilderDefault(ZeroAddress, b, cs, None)
    ELSE IF b.sign.v.tag = "Local" THEN
        [prepare |-> PrepareTx(
                         Some(TransactionRequest(b.sign.v.from, b, b.sign.v.condition))),
         calls |-> cs]
    ELSE FromBuilderOffline(b, cs, b.sign.v.key, b.sign.v.chain_id)

TransactionData(nonce, gas_price, gas, to, value, data) ==
    [nonce |-> nonce, gas_price |-> gas_price, gas |-> gas, to |-> to,
     value |-> value, data |-> data]

\* mutant of RawResult: gas and gas price change places in the record
RawResult_SwapGas(p, result) ==
    IF result.tag = "Err" THEN Err(result.e)
    ELSE LET chain_id == str_parse(result.v[4])
         IN IF chain_id.tag = "Err" THEN Err(chain_id.e)
            ELSE LET tx == TransactionData(result.v[3], result.v[1], result.v[2],
                                           p.address, p.value, p.data)
                     raw == TransactionData_sign(tx, p.key, Some(chain_id.v))
                 IN IF raw.tag = "Err" THEN Err(raw.e) ELSE Ok(RequestRaw(raw.v))

\* mutant of RawResult: a chain id that does not parse is signed as no chain id
RawResult_ParseOk(p, result) ==
    IF result.tag = "Err" THEN Err(result.e)
    ELSE LET parsed == str_parse(result.v[4])
             chain_id == IF parsed.tag = "Err" THEN None ELSE Some(parsed.v)
             tx == TransactionData(result.v[3], result.v[2], result.v[1],
                                   p.address, p.value, p.data)
             raw == TransactionData_sign(tx, p.key, chain_id)
         IN IF raw.tag = "Err" THEN Err(raw.e) ELSE Ok(RequestRaw(raw.v))

\* the closure of the Raw arm of PrepareFuture::poll, applied to the join's result
RawResult(p, result) ==
    IF result.tag = "Err" THEN Err(result.e)
    ELSE LET gas == result.v[1]
             gas_price == result.v[2]
             nonce == result.v[3]
             chain_id == str_parse(result.v[4])
         IN IF chain_id.tag = "Err" THEN Err(chain_id.e)
            ELSE LET tx == TransactionData(nonce, gas_price, gas, p.address, p.value, p.data)
                     raw == TransactionData_sign(tx, p.key, Some(chain_id.v))
                 IN IF raw.tag = "Err" THEN Err(raw.e) ELSE Ok(RequestRaw(raw.v))

\* mutant of DefaultAccountResult: the last listed account is the sender
DefaultAccountResult_LastAccount(request, accounts) ==
    IF accounts.tag = "Err" THEN Err(accounts.e)
    ELSE Ok(RequestTx(IF Len(accounts.v) > 0
                      THEN [request EXCEPT !.from = accounts.v[Len(accounts.v)]]
                      ELSE request))

\* mutant of DefaultAccountResult: an empty account list is an error
DefaultAccountResult_EmptyIsError(request, accounts) ==
    IF accounts.tag = "Err" THEN Err(accounts.e)
    ELSE IF Len(accounts.v) = 0 THEN Err(Web3Error("eth_accounts"))
    ELSE Ok(RequestTx([request EXCEPT !.from = accounts.v[1]]))

\* the closure of the TxDefaultAccount arm, applied to the accounts result
DefaultAccountResult(request, accounts) ==
    IF accounts.tag = "Err" THEN Err(accounts.e)
    ELSE Ok(RequestTx(IF Len(accounts.v) > 0
                      THEN [request EXCEPT !.from = accounts.v[1]]
                      ELSE request))

\* PrepareFuture::poll: the Poll it returns and the future afterwards
PrepareFuture_poll(p, cs) ==
    IF p.tag = "TxDefaultAccount" THEN
        LET r == CompatCallFuture_poll(cs, p.inner)
        IN IF r = Pending THEN [res |-> Pending, prepare |-> p]
           ELSE IF r.v.tag = "Err"
                THEN [res |-> Ready(DefaultAccountResult(None, r.v)), prepare |-> p]
           ELSE IF p.request = None THEN [res |-> Panic, prepare |-> p]
           ELSE [res |-> Ready(DefaultAccountResult(p.request.v, r.v)),
                 prepare |-> [p EXCEPT !.request = None]]
    ELSE IF p.tag = "Tx" THEN
        IF p.request = None THEN [res |-> Panic, prepare |-> p]
        ELSE [res |-> Ready(Ok(RequestTx(p.request.v))),
              prepare |-> [p EXCEPT !.request = None]]
    ELSE
        LET j == TryJoin_poll(p.params, 1, cs)
            q == [p EXCEPT !.params = j.slots]
        IN IF j.res = Pending \/ j.res = Panic THEN [res |-> j.res, prepare |-> q]
           ELSE [res |-> Ready(RawResult(p, j.res.v)), prepare |-> q]

\* ------------------------------------------------------- ExecutionState
\* the send_fn closure of ExecuteFuture::poll
ExecuteFuture_send_fn(tx) ==
    IF tx.tag = "Tx" THEN Call("eth_sendTransaction", <<tx.tx>>)
    ELSE Call("eth_sendRawTransaction", <<tx.raw>>)

\* mutant of ExecuteConfirmFuture_send_fn: a raw request goes to the
\* structured call
ExecuteConfirmFuture_send_fn_OneCall(cf, tx) ==
    Call("send_transaction_with_confirmation",
         <<IF tx.tag = "Tx" THEN tx.tx ELSE tx.raw, cf[1], cf[2]>>)

\* the send_fn closure of ExecuteConfirmFuture::poll
ExecuteConfirmFuture_send_fn(cf, tx) ==
    IF tx.tag = "Tx"
    THEN Call("send_transaction_with_confirmation", <<tx.tx, cf[1], cf[2]>>)
    ELSE Call("send_raw_transaction_with_confirmation", <<tx.raw, cf[1], cf[2]>>)

send_fn(cf, tx) ==
    IF cf = None THEN ExecuteFuture_send_fn(tx) ELSE ExecuteConfirmFuture_send_fn(cf.v, tx)

\* mutant of PollSend: a send that failed is issued again
PollSend_RetryOnError(sn, cs) ==
    IF cs[sn].resp.tag = "Err"
    THEN [ret |-> Pending, state |-> "Send", prepare |-> NoFuture,
          send |-> Len(cs) + 1, calls |-> Append(cs, Call(cs[sn].method, cs[sn].params))]
    ELSE [ret |-> CompatCallFuture_poll(cs, sn), state |-> "Send", prepare |-> NoFuture,
          send |-> sn, calls |-> cs]

\* the Send arm of poll_with_send
PollSend(sn, cs) ==
    [ret |-> CompatCallFuture_poll(cs, sn), state |-> "Send", prepare |-> NoFuture,
     send |-> sn, calls |-> cs]

\* mutant of poll_with_send: the send future is made but not stored, the
\* state stays Prepare
poll_with_send_NoTransition(st, p, sn, cs, cf) ==
    IF st = "Prepare" THEN
        LET r == PrepareFuture_poll(p, cs)
        IN IF r.res = Pending \/ r.res = Panic THEN
               [ret |-> r.res, state |-> "Prepare", prepare |-> r.prepare,
                send |-> sn, calls |-> cs]
           ELSE IF r.res.v.tag = "Err" THEN
               [ret |-> Ready(Err(r.res.v.e)), state |-> "Prepare", prepare |-> r.prepare,
                send |-> sn, calls |-> cs]
           ELSE [ret |-> Pending, state |-> "Prepare", prepare |-> r.prepare,
                 send |-> sn, calls |-> Append(cs, send_fn(cf, r.res.v.v))]
    ELSE PollSend(sn, cs)

\* mutant of poll_with_send: a failed preparation is reported as pending
poll_with_send_ErrPending(st, p, sn, cs, cf) ==
    IF st = "Prepare" THEN
        LET r == PrepareFuture_poll(p, cs)
        IN IF r.res = Pending \/ r.res = Panic THEN
               [ret |-> r.res, state |-> "Prepare", prepare |-> r.prepare,
                send |-> sn, calls |-> cs]
           ELSE IF r.res.v.tag = "Err" THEN
               [ret |-> Pending, state |-> "Prepare", prepare |-> r.prepare,
                send |-> sn, calls |-> cs]
           ELSE LET issued == Append(cs, send_fn(cf, r.res.v.v))
                IN PollSend(Len(issued), issued)
    ELSE PollSend(sn, cs)

\* mutant of poll_with_send: a structured request that has just been
\* prepared from the account list is kept for the next poll, and the poll
\* returns Pending before the send future is made
poll_with_send_ExtraSuspension(st, p, sn, cs, cf) ==
    IF st = "Prepare" THEN
        LET r == PrepareFuture_poll(p, cs)
        IN IF r.res = Pending \/ r.res = Panic THEN
               [ret |-> r.res, state |-> "Prepare", prepare |-> r.prepare,
                send |-> sn, calls |-> cs]
           ELSE IF r.res.v.tag = "Err" THEN
               [ret |-> Ready(Err(r.res.v.e)), state |-> "Prepare", prepare |-> r.prepare,
                send |-> sn, calls |-> cs]
           ELSE IF p.tag = "TxDefaultAccount" THEN
               [ret |-> Pending, state |-> "Prepare",
                prepare |-> PrepareTx(Some(r.res.v.v.tx)), send |-> sn, calls |-> cs]
           ELSE LET issued == Append(cs, send_fn(cf, r.res.v.v))
                IN PollSend(Len(issued), issued)
    ELSE PollSend(sn, cs)

\* ExecutionState::poll_with_send: what it returns and the state afterwards
poll_with_send(st, p, sn, cs, cf) ==
    IF st = "Prepare" THEN
        LET r == PrepareFuture_poll(p, cs)
        IN IF r.res = Pending \/ r.res = Panic THEN
               [ret |-> r.res, state |-> "Prepare", prepare |-> r.prepare,
                send |-> sn, calls |-> cs]
           ELSE IF r.res.v.tag = "Err" THEN
               [ret |-> Ready(Err(r.res.v.e)), state |-> "Prepare", prepare |-> r.prepare,
                send |-> sn, calls |-> cs]
           ELSE LET issued == Append(cs, send_fn(cf, r.res.v.v))
                IN PollSend(Len(issued), issued)
    ELSE PollSend(sn, cs)

\* ---------------------------------------------------------------- actions
\* TransactionBuilder::execute
Execute ==
    /\ phase = "building"
    /\ LET f == PrepareFuture_from_builder(builder, calls)
       IN /\ prepare' = f.prepare
          /\ calls' = f.calls
    /\ phase' = "executing"
    /\ state' = "Prepare"
    /\ confirm' = None
    /\ UNCHANGED <<builder, send, outcome, polled, lastSet, owner>>

\* TransactionBuilder::execute_and_confirm
ExecuteAndConfirm ==
    /\ phase = "building"
    /\ \E poll_interval \in Durations, confirmations \in Confirmations :
           confirm' = Some(<<poll_interval, confirmations>>)
    /\ LET f == PrepareFuture_from_builder(builder, calls)
       IN /\ prepare' = f.prepare
          /\ calls' = f.calls
    /\ phase' = "executing"
    /\ state' = "Prepare"
    /\ UNCHANGED <<builder, send, outcome, polled, lastSet, owner>>

\* ExecuteFuture::poll and ExecuteConfirmFuture::poll
Poll ==
    /\ phase = "executing"
    /\ \E r \in {poll_with_send(state, prepare, send, calls, confirm)} :
          /\ state' = r.state
          /\ prepare' = r.prepare
          /\ send' = r.send
          /\ calls' = r.calls
          /\ phase' = IF r.ret = Pending THEN "executing"
                      ELSE IF r.ret = Panic THEN "panicked" ELSE "done"
          /\ outcome' = IF r.ret.tag = "Ready" THEN Some(r.ret.v) ELSE outcome
    /\ polled' = TRUE
    /\ UNCHANGED <<builder, confirm, lastSet, owner>>

\* the future is dropped before it has completed
Drop ==
    /\ phase = "executing"
    /\ phase' = "dropped"
    /\ UNCHANGED <<builder, confirm, state, prepare, send, calls, outcome, polled, lastSet,
                 owner>>

AccountLists == { <<>>, <<"0x222">>, <<"0x111", "0x222">> }

\* what the node may answer to a call
Responses(method) ==
    {Err(Web3Error(method))} \cup
    CASE method = "eth_accounts" -> {Ok(l) : l \in AccountLists}
      [] method \in {"eth_estimateGas", "eth_gasPrice", "eth_getTransactionCount"} ->
            {Ok(v) : v \in U256}
      [] method = "net_version" -> {Ok(v) : v \in VersionStrings}
      [] method \in {"eth_sendTransaction", "eth_sendRawTransaction"} -> {Ok("hash1")}
      [] OTHER -> {Ok("receipt1")}

\* the node answers a call it has received; it does so whether or not the
\* future that issued the call is still there
Respond ==
    /\ phase \in {"executing", "dropped"}
    /\ \E i \in 1 .. Len(calls) :
          /\ calls[i].resp = Pending
          /\ \E r \in Responses(calls[i].method) :
                calls' = [calls EXCEPT ![i].resp = r]
    /\ UNCHANGED <<phase, builder, confirm, state, prepare, send, outcome, polled, lastSet,
                 owner>>

Next ==
    \/ SetSign
    \/ SetGas
    \/ SetGasPrice
    \/ SetValue
    \/ SetNonce
    \/ Execute
    \/ ExecuteAndConfirm
    \/ Poll
    \/ Drop
    \/ Respond

Spec == Init /\ [][Next]_vars

\* ------------------------------------------------------------ properties
QueryMethods ==
    {"eth_accounts", "eth_estimateGas", "eth_gasPrice", "eth_getTransactionCount",
     "net_version"}
StructuredSendMethods == {"eth_sendTransaction", "send_transaction_with_confirmation"}
RawSendMethods == {"eth_sendRawTransaction", "send_raw_transaction_with_confirmation"}
SendMethods == StructuredSendMethods \cup RawSendMethods

CallsOf(m) == {i \in 1 .. Len(calls) : calls[i].method = m}
QueryCalls == {i \in 1 .. Len(calls) : calls[i].method \in QueryMethods}
SendCalls == {i \in 1 .. Len(calls) : calls[i].method \in SendMethods}

Started == phase # "building"
IsDefault == builder.sign = None
IsLocal == builder.sign # None /\ builder.sign.v.tag = "Local"
IsOffline == builder.sign # None /\ builder.sign.v.tag = "Offline"

\* C1: with Sign::Local(from, condition), whatever gas, gas price, value and
\* nonce are, no query is ever issued, and once the future has been polled
\* the one call made is the structured send of the request built from the
\* builder's fields, from and condition.
C1_LocalNoQueryTxOnFirstPoll ==
    (Started /\ IsLocal) =>
        /\ QueryCalls = {}
        /\ polled =>
              /\ state = "Send"
              /\ Len(calls) = 1
              /\ calls[1].method \in StructuredSendMethods
              /\ calls[1].params[1] =
                    [from |-> builder.sign.v.from, to |-> Some(builder.address),
                     gas |-> builder.gas, gas_price |-> builder.gas_price,
                     value |-> builder.value, data |-> Some(builder.data),
                     nonce |-> builder.nonce, condition |-> builder.sign.v.condition]

C1_Witness ==
    /\ IsLocal /\ polled /\ state = "Send"
    /\ builder.sign.v.condition # None
    /\ builder.gas # None /\ builder.nonce = None

\* the query a missing offline parameter is resolved by
FieldMethod ==
    [gas |-> "eth_estimateGas", gas_price |-> "eth_gasPrice",
     nonce |-> "eth_getTransactionCount", chain_id |-> "net_version"]
OfflineFields == {"gas", "gas_price", "nonce", "chain_id"}
Supplied(f) ==
    IF f = "chain_id" THEN builder.sign.v.chain_id # None ELSE builder[f] # None
MissingFields == {f \in OfflineFields : ~Supplied(f)}

\* C2: with Sign::Offline, the queries issued are exactly one per field of
\* gas, gas price, nonce and chain id that the caller did not supply, and
\* none for a supplied field; the account list is never queried.
C2_OfflineQueriesAreMissingFields ==
    (Started /\ IsOffline) =>
        /\ \A f \in OfflineFields :
              Cardinality(CallsOf(FieldMethod[f])) = IF Supplied(f) THEN 0 ELSE 1
        /\ CallsOf("eth_accounts") = {}
        /\ Cardinality(QueryCalls) = Cardinality(MissingFields)

C2_Witness ==
    /\ Started /\ IsOffline
    /\ MissingFields = {"nonce"}
    /\ Cardinality(QueryCalls) = 1
    /\ SendCalls # {}

\* C3: with no signing strategy the one query issued is the account list;
\* when it answers a non-empty list the structured request sent has the
\* first listed address as from, the builder's target, data, gas, gas
\* price, value and nonce, and no condition.
C3_DefaultAccountRequest ==
    (Started /\ IsDefault) =>
        /\ Len(calls) >= 1
        /\ calls[1].method = "eth_accounts"
        /\ QueryCalls = {1}
        /\ \A i \in SendCalls :
              /\ calls[i].method \in StructuredSendMethods
              /\ calls[1].resp.tag = "Ok"
              /\ Len(calls[1].resp.v) > 0 =>
                    calls[i].params[1] =
                        [from |-> calls[1].resp.v[1], to |-> Some(builder.address),
                         gas |-> builder.gas, gas_price |-> builder.gas_price,
                         value |-> builder.value, data |-> Some(builder.data),
                         nonce |-> builder.nonce, condition |-> None]

C3_Witness ==
    /\ IsDefault /\ SendCalls # {}
    /\ Len(calls[1].resp.v) = 2
    /\ builder.gas = None /\ builder.gas_price # None /\ builder.nonce = None

\* C4: with no signing strategy and an empty account list, preparation does
\* not fail: the poll that sees the list moves to Send and issues the
\* structured send, whose sender is the zero address.
C4_EmptyAccountsZeroSender ==
    /\ [](  (Started /\ IsDefault /\ calls[1].resp = Ok(<<>>)) =>
              /\ phase # "panicked"
              /\ state = "Prepare" => outcome = None
              /\ \A i \in SendCalls :
                    /\ calls[i].method \in StructuredSendMethods
                    /\ calls[i].params[1].from = ZeroAddress )
    /\ [][ (Poll /\ IsDefault /\ state = "Prepare" /\ calls[1].resp = Ok(<<>>)) =>
              (state' = "Send" /\ SendCalls' # {} /\ phase' = "executing") ]_vars

C4_Witness ==
    /\ Started /\ IsDefault /\ calls[1].resp = Ok(<<>>)
    /\ state = "Send" /\ SendCalls # {}

\* the answer to the one call of method m
QueryResp(m) == calls[CHOOSE i \in CallsOf(m) : TRUE].resp
\* the value of an offline parameter: the caller's, else the node's answer
ResolvedU256(f) == IF builder[f] # None THEN builder[f].v ELSE QueryResp(FieldMethod[f]).v
\* the chain id a version string stands for
VersionChainId(s) ==
    CASE s = <<"3">> -> Some(3)
      [] s = <<"1", "2">> -> Some(12)
      [] s = <<"+", "1">> -> Some(1)
      [] OTHER -> None
ResolvedChainId ==
    IF builder.sign.v.chain_id # None THEN builder.sign.v.chain_id
    ELSE VersionChainId(QueryResp("net_version").v)

\* C5: with Sign::Offline, a request that is sent is the signature, by the
\* caller's key and for the resolved chain id, of the record of nonce, gas
\* price and gas (the caller's value, else the node's answer), the
\* builder's target, the caller's value or 0, and the builder's call data.
C5_RawIsSignedRecord ==
    (Started /\ IsOffline) =>
        \A i \in SendCalls :
            /\ \A f \in MissingFields : QueryResp(FieldMethod[f]).tag = "Ok"
            /\ calls[i].method \in RawSendMethods
            /\ calls[i].params[1] =
                  [signed |-> [nonce |-> ResolvedU256("nonce"),
                               gas_price |-> ResolvedU256("gas_price"),
                               gas |-> ResolvedU256("gas"),
                               to |-> builder.address,
                               value |-> IF builder.value = None THEN 0
                                         ELSE builder.value.v,
                               data |-> builder.data],
                   key |-> builder.sign.v.key,
                   chain_id |-> ResolvedChainId]

C5_Witness ==
    /\ IsOffline /\ SendCalls # {}
    /\ MissingFields = {"gas", "chain_id"}
    /\ builder.value = None
    /\ builder.gas_price.v # QueryResp("eth_estimateGas").v

ChainIdOmitted == IsOffline /\ builder.sign.v.chain_id = None
VersionUnparseable ==
    /\ QueryResp("net_version").tag = "Ok"
    /\ VersionChainId(QueryResp("net_version").v) = None
FailedQueries == {i \in QueryCalls : calls[i].resp.tag = "Err"}

\* C6 as stated: with the chain id omitted, the chain id signed for is the
\* integer the version string stands for, and a version string that is not
\* an integer ends the operation with the chain-id parse error and no send.
C6_Original ==
    (Started /\ ChainIdOmitted) =>
        /\ \A i \in SendCalls :
              /\ QueryResp("net_version").tag = "Ok"
              /\ VersionChainId(QueryResp("net_version").v) # None
              /\ calls[i].params[1].chain_id = VersionChainId(QueryResp("net_version").v)
        /\ VersionUnparseable =>
              /\ SendCalls = {}
              /\ phase = "done" => outcome = Some(Err(ParseError))

\* C6 amended: the same, but the outcome is the chain-id parse error only
\* when no parameter query failed; when one failed the outcome is that
\* query's transport error.  No send call is issued in either case.
C6_ParseErrorUnlessQueryFailed ==
    (Started /\ ChainIdOmitted) =>
        /\ \A i \in SendCalls :
              /\ QueryResp("net_version").tag = "Ok"
              /\ VersionChainId(QueryResp("net_version").v) # None
              /\ calls[i].params[1].chain_id = VersionChainId(QueryResp("net_version").v)
        /\ VersionUnparseable =>
              /\ SendCalls = {}
              /\ phase # "panicked"
              /\ (phase = "done" /\ FailedQueries = {}) => outcome = Some(Err(ParseError))
              /\ (phase = "done" /\ FailedQueries # {}) =>
                    \E i \in FailedQueries :
                        outcome = Some(Err(Web3Error(calls[i].method)))

C6_Witness ==
    /\ Started /\ ChainIdOmitted /\ VersionUnparseable
    /\ phase = "done" /\ outcome = Some(Err(ParseError))
    /\ Cardinality(MissingFields) = 4

\* C7: a future dropped while its state is Prepare never issues a send
\* call, whatever the node has answered or answers afterwards.
C7_DroppedInPrepareNeverSends ==
    (phase = "dropped" /\ state = "Prepare") => SendCalls = {}

C7_Witness ==
    /\ phase = "dropped" /\ state = "Prepare" /\ polled
    /\ IsOffline /\ Len(calls) = 4
    /\ \A i \in 1 .. Len(calls) : calls[i].resp.tag = "Ok"
    /\ VersionChainId(QueryResp("net_version").v) # None
    /\ builder.sign.v.key # "kBad"

\* the write call a signing strategy and an operation lead to
ExpectedSendMethod ==
    IF IsOffline
    THEN (IF confirm = None THEN "eth_sendRawTransaction"
          ELSE "send_raw_transaction_with_confirmation")
    ELSE (IF confirm = None THEN "eth_sendTransaction"
          ELSE "send_transaction_with_confirmation")

\* C8: every write call is the one the signing strategy fixes: the
\* structured send of a structured request with no strategy or Sign::Local,
\* the raw send of a signed payload with Sign::Offline; for
\* execute_and_confirm it is the with-confirmation call and carries the
\* caller's poll interval and confirmations.
C8_SendKindFixedBySign ==
    Started =>
        \A i \in SendCalls :
            /\ calls[i].method = ExpectedSendMethod
            /\ IsOffline => "signed" \in DOMAIN calls[i].params[1]
            /\ ~IsOffline => "from" \in DOMAIN calls[i].params[1]
            /\ confirm = None => Len(calls[i].params) = 1
            /\ confirm # None =>
                  /\ Len(calls[i].params) = 3
                  /\ calls[i].params[2] = confirm.v[1]
                  /\ calls[i].params[3] = confirm.v[2]

C8_Witness ==
    /\ IsOffline /\ SendCalls # {}
    /\ confirm # None /\ confirm.v[2] = 1

\* C9: once a query of the preparation has failed, no send call is issued,
\* no query is issued twice, the next poll ends the operation, and its
\* outcome is the transport error of a failed query.
C9_QueryFailureAborts ==
    /\ []( FailedQueries # {} =>
              /\ SendCalls = {}
              /\ \A m \in QueryMethods : Cardinality(CallsOf(m)) <= 1
              /\ phase # "panicked"
              /\ phase = "done" =>
                    \E i \in FailedQueries :
                        outcome = Some(Err(Web3Error(calls[i].method))) )
    /\ [][ (Poll /\ FailedQueries # {}) =>
              (phase' = "done" /\ calls' = calls) ]_vars

C9_Witness ==
    /\ phase = "done" /\ IsOffline
    /\ Cardinality(FailedQueries) = 1
    /\ \E i \in QueryCalls : calls[i].resp = Pending
    /\ \E i \in QueryCalls : calls[i].resp.tag = "Ok"

\* C10: with Sign::Offline the queries of all missing parameters are
\* issued together by execute, before any of them is answered, and the
\* send call is issued (the state is Send) only when every one of them has
\* been answered with a value.
C10_JoinOfAllFour ==
    /\ []( (Started /\ IsOffline) =>
              /\ \A f \in MissingFields : CallsOf(FieldMethod[f]) # {}
              /\ (state = "Send") = (SendCalls # {})
              /\ SendCalls # {} =>
                    \A i \in QueryCalls : calls[i].resp.tag = "Ok" )
    /\ [][ ((Execute \/ ExecuteAndConfirm) /\ IsOffline) =>
              (/\ Len(calls') = Cardinality(MissingFields)
               /\ \A i \in 1 .. Len(calls') : calls'[i].resp = Pending) ]_vars

C10_Witness ==
    /\ IsOffline /\ SendCalls # {}
    /\ Cardinality(MissingFields) = 4
    /\ Cardinality(QueryCalls) = 4

\* the answers the preparation needs are there and let it succeed
KeyCanSign == TransactionData_sign(<<>>, builder.sign.v.key, None).tag = "Ok"
PrepOk ==
    \/ IsLocal
    \/ IsDefault /\ calls[1].resp.tag = "Ok"
    \/ /\ IsOffline
       /\ \A i \in QueryCalls : calls[i].resp.tag = "Ok"
       /\ ChainIdOmitted => VersionChainId(QueryResp("net_version").v) # None
       /\ KeyCanSign

\* C11: an operation is linear and used once: at most one send call is
\* ever issued, one is issued exactly when the preparation succeeded, and
\* there is one terminal outcome, a result of the send call or an error,
\* after which nothing changes any more.
C11_LinearSingleUse ==
    /\ []( Started =>
              /\ Cardinality(SendCalls) <= 1
              /\ SendCalls # {} => (PrepOk /\ polled /\ SendCalls = {send})
              /\ (phase = "done" /\ SendCalls = {}) => ~PrepOk
              /\ (phase = "done") = (outcome # None)
              /\ outcome # None =>
                    /\ outcome.v.tag \in {"Ok", "Err"}
                    /\ outcome.v.tag = "Ok" => SendCalls # {}
                    /\ SendCalls # {} => outcome.v = calls[send].resp )
    /\ [][ outcome # None => (outcome' = outcome /\ calls' = calls) ]_vars
    /\ [][ (Poll /\ state = "Send") => calls' = calls ]_vars

C11_Witness ==
    /\ phase = "done" /\ IsOffline /\ confirm # None
    /\ outcome = Some(Ok("receipt1"))
    /\ Cardinality(SendCalls) = 1 /\ Len(calls) = 5

\* the signed payload a fully specified offline builder stands for: a
\* function of the builder alone
RawOfBuilder(b) ==
    [signed |-> [nonce |-> b.nonce.v, gas_price |-> b.gas_price.v, gas |-> b.gas.v,
                 to |-> b.address,
                 value |-> IF b.value = None THEN 0 ELSE b.value.v,
                 data |-> b.data],
     key |-> b.sign.v.key,
     chain_id |-> b.sign.v.chain_id]

\* C12: with Sign::Offline and gas, gas price, nonce and chain id all
\* given, the Raw request is a function of the builder alone: no call is
\* made whose answer could enter it, and whenever and however often the
\* future is polled the payload sent is the same, so two runs from equal
\* builders send equal payloads.
C12_FullySpecifiedRawIsDeterministic ==
    (Started /\ IsOffline /\ MissingFields = {}) =>
        /\ QueryCalls = {}
        /\ \A i \in SendCalls : calls[i].params[1] = RawOfBuilder(builder)
        /\ (polled /\ KeyCanSign) =>
              (SendCalls # {} /\ state = "Send")

C12_Witness ==
    /\ IsOffline /\ MissingFields = {} /\ SendCalls # {}
    /\ builder.value # None
    /\ phase = "done"

SetterFields == {"sign", "gas", "gas_price", "value", "nonce"}
SetterStep == SetSign \/ SetGas \/ SetGasPrice \/ SetValue \/ SetNonce

\* C13: each setter records its own field and nothing else: after any
\* sequence of setter calls every field holds the argument of the last
\* call of its setter, or nothing when it was never called; the target and
\* the call data never change; and no call is made to the node while the
\* builder is being configured.
C13_SettersRecordOwnField ==
    /\ []( /\ \A f \in SetterFields : builder[f] = lastSet[f]
           /\ phase = "building" => calls = <<>> )
    /\ [][ /\ builder'.address = builder.address
           /\ builder'.data = builder.data ]_vars
    /\ [][ SetterStep =>
              /\ calls' = calls
              /\ \A f \in SetterFields :
                    (lastSet'[f] = lastSet[f]) => (builder'[f] = builder[f]) ]_vars

C13_Witness ==
    /\ phase = "building"
    /\ builder.gas = Some(1) /\ builder.gas_price = Some(0)
    /\ builder.nonce = Some(1) /\ builder.value = None
    /\ builder.sign # None

\* C14: the step from Prepare to Send adds no suspension point: the poll
\* in which the preparation succeeds issues the send call and returns with
\* the state Send; Send is never left; and with Sign::Local the first poll
\* already issues the send call.
C14_SendInSamePoll ==
    /\ []( Started =>
              /\ (state = "Send") = (SendCalls # {})
              /\ (IsLocal /\ polled) => SendCalls # {} )
    /\ [][ state = "Send" => state' = "Send" ]_vars
    /\ [][ (Poll /\ state = "Prepare" /\ PrepOk) =>
              /\ state' = "Send"
              /\ phase' = "executing"
              /\ Len(calls') = Len(calls) + 1
              /\ SendCalls' = {Len(calls')}
              /\ send' = Len(calls')
              /\ prepare' = NoFuture ]_vars

C14_Witness ==
    /\ IsDefault /\ state = "Send" /\ phase = "executing"
    /\ calls[send].resp = Pending
    /\ Len(calls[1].resp.v) = 1

\* the failed query the join comes to first
FirstFailed == CHOOSE i \in FailedQueries : \A j \in FailedQueries : i <= j

\* C15: with Sign::Offline, the poll that finds a parameter query failed
\* ends the operation at once with that query's error (of several failed
\* ones, the one joined first), whether or not sibling queries are still
\* pending; it issues nothing.
C15_FirstFailureIsImmediate ==
    [][ (Poll /\ IsOffline /\ FailedQueries # {}) =>
           /\ phase' = "done"
           /\ outcome' = Some(Err(Web3Error(calls[FirstFailed].method)))
           /\ calls' = calls ]_vars

C15_Witness ==
    /\ phase = "done" /\ IsOffline
    /\ Cardinality(MissingFields) = 4
    /\ calls[1].resp = Pending /\ calls[2].resp = Pending
    /\ calls[3].resp.tag = "Err"
    /\ calls[4].resp = Pending
    /\ outcome = Some(Err(Web3Error("eth_getTransactionCount")))

PendingQueries == {i \in QueryCalls : calls[i].resp = Pending}

\* C16 as stated: with the chain id omitted, once the version string that
\* came back is not an integer, the next poll ends the operation with the
\* chain-id parse error, without waiting for pending gas, gas price or
\* nonce queries.
C16_Original ==
    [][ (Poll /\ ChainIdOmitted /\ VersionUnparseable) =>
           (phase' = "done" /\ outcome' = Some(Err(ParseError))) ]_vars

\* C16 amended: the version string is parsed only when all four
\* resolutions have succeeded.  A poll that finds the string unparseable
\* ends the operation with the chain-id parse error when the gas, gas
\* price and nonce queries have all been answered with a value; it
\* returns pending while one of them is pending and none has failed; and
\* it ends with the transport error of a failed one otherwise.
C16_ParseErrorAfterJoin ==
    [][ (Poll /\ ChainIdOmitted /\ VersionUnparseable) =>
           /\ (FailedQueries = {} /\ PendingQueries = {}) =>
                 (phase' = "done" /\ outcome' = Some(Err(ParseError)))
           /\ (FailedQueries = {} /\ PendingQueries # {}) =>
                 (phase' = "executing" /\ outcome' = None /\ state' = "Prepare")
           /\ FailedQueries # {} =>
                 /\ phase' = "done"
                 /\ outcome' = Some(Err(Web3Error(calls[FirstFailed].method)))
           /\ calls' = calls ]_vars

C16_Witness ==
    /\ phase = "executing" /\ ChainIdOmitted /\ VersionUnparseable
    /\ state = "Prepare"
    /\ prepare.params[4].tag = "Done"
    /\ PendingQueries # {} /\ FailedQueries = {}

\* C18: with Sign::Offline the version string is parsed, and the record
\* signed, only when all four resolutions have succeeded: an operation
\* that ended with the chain-id parse error or a signing error had every
\* parameter query answered with a value (and a signing error means the
\* string did parse), and one that ended after a parameter query failed
\* ended with that transport error, unparseable version string or not.
C18_ParseAndSignAfterJoin ==
    (phase = "done" /\ IsOffline /\ outcome.v.tag = "Err") =>
        /\ outcome.v.e.kind \in {"Parse", "Sign"} =>
              (FailedQueries = {} /\ PendingQueries = {} /\ SendCalls = {})
        /\ outcome.v.e.kind = "Parse" => (ChainIdOmitted /\ VersionUnparseable)
        /\ outcome.v.e.kind = "Sign" =>
              (~KeyCanSign /\ (ChainIdOmitted => ~VersionUnparseable))
        /\ FailedQueries # {} =>
              outcome.v.e = Web3Error(calls[FirstFailed].method)

C18_Witness ==
    /\ phase = "done" /\ ChainIdOmitted /\ VersionUnparseable
    /\ FailedQueries # {}
    /\ outcome.v.e.kind = "Web3"
    /\ ~KeyCanSign

\* the request of the preparation future, or an output of its join, has
\* been taken
PrepareTaken ==
    \/ prepare.tag \in {"TxDefaultAccount", "Tx"} /\ prepare.request = None
    \/ prepare.tag = "Raw" /\ \E k \in 1 .. Len(prepare.params) : prepare.params[k].tag = "Gone"

\* C20: the preparation future is polled only while nothing has been taken
\* out of it: a future that can still be polled and is in Prepare holds its
\* request (its join holds its outputs), the step to Send drops the
\* preparation future for good, and no poll ever panics.
C20_PrepareTakenOnce ==
    /\ []( Started =>
              /\ phase # "panicked"
              /\ (phase = "executing" /\ state = "Prepare") => ~PrepareTaken
              /\ state = "Send" => prepare = NoFuture
              /\ PrepareTaken => (phase = "done" /\ outcome.v.tag = "Err") )
    /\ [][ (Poll /\ state = "Send") => (prepare' = NoFuture /\ phase' # "panicked") ]_vars

C20_Witness ==
    /\ phase = "done" /\ IsLocal
    /\ state = "Send" /\ prepare = NoFuture
    /\ outcome = Some(Ok("hash1"))

\* A poll would change the state: ENABLED <<Poll>>_vars written out.
PollWakes ==
    /\ phase = "executing"
    /\ LET r == poll_with_send(state, prepare, send, calls, confirm)
       IN \/ ~polled
          \/ r.ret # Pending
          \/ <<r.state, r.prepare, r.send, r.calls>> # <<state, prepare, send, calls>>

\* Weak fairness of Poll, with its enabling condition given by PollWakes.
PollFair == []<>~PollWakes \/ []<><<Poll>>_vars

\* The executor polls a future again once it has been woken, and every call
\* the node has received is answered in the end.
LiveSpec == Spec /\ WF_vars(Respond) /\ PollFair

\* C19: when every call is answered and the future is polled after each
\* answer, an operation that has been started and is not dropped ends with
\* a result or an error, in every signing mode and for execute and
\* execute_and_confirm alike; it does not stay in Prepare or Send for ever.
C19_EventuallyTerminates ==
    (phase = "executing") ~> (phase \in {"done", "dropped"})

C19_Witness ==
    /\ phase = "done" /\ IsOffline /\ confirm = None
    /\ Cardinality(MissingFields) = 4
    /\ outcome = Some(Ok("hash1"))

\* -------------------------------------------- several operations, one node
\* Two operations built from clones of one web3 handle.  Every variable but
\* calls, owner and lastSet holds one value per operation; calls is the one
\* log of the node they share.
Ops == {1, 2}

\* builders as the setters leave them: one per signing strategy
TwoBuilders ==
    UNION { { b,
              Builder_sign(b, SignLocal("0x111", None)),
              Builder_gas_price(Builder_gas(Builder_sign(b, SignOffline("k1", Some(1))), 0), 0) }
            : b \in {TransactionBuilder_new(a, d) : a \in Targets, d \in CallData} }

InitTwo ==
    /\ phase = [o \in Ops |-> "building"]
    /\ builder \in [Ops -> TwoBuilders]
    /\ confirm = [o \in Ops |-> None]
    /\ state = [o \in Ops |-> "Prepare"]
    /\ prepare = [o \in Ops |-> NoFuture]
    /\ send = [o \in Ops |-> 0]
    /\ calls = <<>>
    /\ outcome = [o \in Ops |-> None]
    /\ polled = [o \in Ops |-> FALSE]
    /\ lastSet = [sign |-> None, gas |-> None, gas_price |-> None, value |-> None,
                  nonce |-> None]
    /\ owner = <<>>

\* the calls that follow the first n of cs were issued by operation o
Issued(o, n, cs) == owner \o [i \in 1 .. (Len(cs) - n) |-> o]

\* TransactionBuilder::execute, of operation o
TwoExecute(o) ==
    /\ phase[o] = "building"
    /\ \E f \in {PrepareFuture_from_builder(builder[o], calls)} :
          /\ prepare' = [prepare EXCEPT ![o] = f.prepare]
          /\ calls' = f.calls
          /\ owner' = Issued(o, Len(calls), f.calls)
    /\ phase' = [phase EXCEPT ![o] = "executing"]
    /\ state' = [state EXCEPT ![o] = "Prepare"]
    /\ confirm' = [confirm EXCEPT ![o] = None]
    /\ UNCHANGED <<builder, send, outcome, polled, lastSet>>

\* TransactionBuilder::execute_and_confirm, of operation o
TwoExecuteAndConfirm(o) ==
    /\ phase[o] = "building"
    /\ \E poll_interval \in Durations, confirmations \in Confirmations :
           confirm' = [confirm EXCEPT ![o] = Some(<<poll_interval, confirmations>>)]
    /\ \E f \in {PrepareFuture_from_builder(builder[o], calls)} :
          /\ prepare' = [prepare EXCEPT ![o] = f.prepare]
          /\ calls' = f.calls
          /\ owner' = Issued(o, Len(calls), f.calls)
    /\ phase' = [phase EXCEPT ![o] = "executing"]
    /\ state' = [state EXCEPT ![o] = "Prepare"]
    /\ UNCHANGED <<builder, send, outcome, polled, lastSet>>

\* mutant of OpPoll: an operation waits while an earlier one is executing
OpPoll_Serialized(o) ==
    IF \E p \in Ops : p < o /\ phase[p] = "executing" THEN
        [ret |-> Pending, state |-> state[o], prepare |-> prepare[o],
         send |-> send[o], calls |-> calls]
    ELSE poll_with_send(state[o], prepare[o], send[o], calls, confirm[o])

\* the poll of operation o: poll_with_send on its own ExecutionState
OpPoll(o) == poll_with_send(state[o], prepare[o], send[o], calls, confirm[o])

\* ExecuteFuture::poll and ExecuteConfirmFuture::poll, of operation o
TwoPoll(o) ==
    /\ phase[o] = "executing"
    /\ \E r \in {OpPoll(o)} :
          /\ state' = [state EXCEPT ![o] = r.state]
          /\ prepare' = [prepare EXCEPT ![o] = r.prepare]
          /\ send' = [send EXCEPT ![o] = r.send]
          /\ calls' = r.calls
          /\ owner' = Issued(o, Len(calls), r.calls)
          /\ phase' = [phase EXCEPT ![o] =
                          IF r.ret = Pending THEN "executing"
                          ELSE IF r.ret = Panic THEN "panicked" ELSE "done"]
          /\ outcome' = [outcome EXCEPT ![o] =
                            IF r.ret.tag = "Ready" THEN Some(r.ret.v) ELSE @]
    /\ polled' = [polled EXCEPT ![o] = TRUE]
    /\ UNCHANGED <<builder, confirm, lastSet>>

\* the future of operation o is dropped before it has completed
TwoDrop(o) ==
    /\ phase[o] = "executing"
    /\ phase' = [phase EXCEPT ![o] = "dropped"]
    /\ UNCHANGED <<builder, confirm, state, prepare, send, calls, outcome, polled, lastSet,
                   owner>>

\* the node answers a call of either operation
TwoRespond ==
    /\ \E i \in 1 .. Len(calls) :
          /\ phase[owner[i]] \in {"executing", "dropped"}
          /\ calls[i].resp = Pending
          /\ \E r \in Responses(calls[i].method) :
                calls' = [calls EXCEPT ![i].resp = r]
    /\ UNCHANGED <<phase, builder, confirm, state, prepare, send, outcome, polled, lastSet,
                   owner>>

NextTwo ==
    \/ \E o \in Ops : TwoExecute(o)
    \/ \E o \in Ops : TwoExecuteAndConfirm(o)
    \/ \E o \in Ops : TwoPoll(o)
    \/ \E o \in Ops : TwoDrop(o)
    \/ TwoRespond

SpecTwo == InitTwo /\ [][NextTwo]_vars

\* the calls operation o issued
Own(o) == {i \in 1 .. Len(calls) : owner[i] = o}
OwnQueries(o) == {i \in Own(o) : calls[i].method \in QueryMethods}
OwnSends(o) == {i \in Own(o) : calls[i].method \in SendMethods}
\* the node's answer to the call of method m that operation o issued
OwnResp(o, m) == calls[CHOOSE i \in Own(o) : calls[i].method = m].resp
\* the errors of the queries of operation o that failed
OwnErrors(o) == {calls[i].resp.e : i \in {j \in OwnQueries(o) : calls[j].resp.tag = "Err"}}

\* the queries a builder's configuration asks for
QueriesFor(b) ==
    IF b.sign = None THEN {"eth_accounts"}
    ELSE IF b.sign.v.tag = "Local" THEN {}
    ELSE {FieldMethod[f] : f \in {g \in OfflineFields :
                                     IF g = "chain_id" THEN b.sign.v.chain_id = None
                                     ELSE b[g] = None}}

\* the write call a builder's configuration and the operation chosen lead to
SendMethodFor(b, cf) ==
    IF b.sign # None /\ b.sign.v.tag = "Offline"
    THEN (IF cf = None THEN "eth_sendRawTransaction"
          ELSE "send_raw_transaction_with_confirmation")
    ELSE (IF cf = None THEN "eth_sendTransaction"
          ELSE "send_transaction_with_confirmation")

\* the request a send call of operation o carries is made of the operation's
\* own builder and the answers to its own queries
OwnRequest(o, i) ==
    LET b == builder[o]
    IN  IF b.sign = None THEN
            LET accounts == OwnResp(o, "eth_accounts").v
            IN  calls[i].params[1] =
                    TransactionRequest(IF accounts = <<>> THEN ZeroAddress ELSE accounts[1],
                                       b, None)
        ELSE IF b.sign.v.tag = "Local" THEN
            calls[i].params[1] = TransactionRequest(b.sign.v.from, b, b.sign.v.condition)
        ELSE
            /\ calls[i].params[1].key = b.sign.v.key
            /\ calls[i].params[1].signed.to = b.address
            /\ calls[i].params[1].signed.data = b.data
            /\ \A f \in {"gas", "gas_price", "nonce"} :
                  calls[i].params[1].signed[f] =
                      IF b[f] # None THEN b[f].v ELSE OwnResp(o, FieldMethod[f]).v
            /\ calls[i].params[1].chain_id =
                  IF b.sign.v.chain_id # None THEN b.sign.v.chain_id
                  ELSE VersionChainId(OwnResp(o, "net_version").v)

\* C17: two operations sharing one node, under every interleaving of their
\* polls and of the node's answers: each issues the queries its own builder
\* asks for, sends at most once, the request made of its own builder and the
\* answers to its own queries, and ends with the answer to its own send or
\* the error of one of its own queries; a poll only appends to the shared
\* log, and a poll of an operation whose calls are all answered completes
\* it or issues its send, whatever the other operation is doing.  (Every
\* builder of TwoBuilders can be signed for, so an operation that does not
\* send has failed with the error of one of its own queries.)
C17_OperationsIndependent ==
    /\ []( \A o \in Ops :
              /\ phase[o] = "building" => Own(o) = {}
              /\ phase[o] # "building" =>
                    /\ phase[o] # "panicked"
                    /\ {calls[i].method : i \in OwnQueries(o)} = QueriesFor(builder[o])
                    /\ Cardinality(OwnQueries(o)) = Cardinality(QueriesFor(builder[o]))
                    /\ Cardinality(OwnSends(o)) <= 1
                    /\ \A i \in OwnSends(o) :
                          /\ i = send[o]
                          /\ state[o] = "Send"
                          /\ calls[i].method = SendMethodFor(builder[o], confirm[o])
                          /\ \A j \in OwnQueries(o) : calls[j].resp.tag = "Ok"
                          /\ OwnRequest(o, i)
                    /\ outcome[o] # None =>
                          /\ phase[o] = "done"
                          /\ OwnSends(o) # {} => outcome[o].v = calls[send[o]].resp
                          /\ OwnSends(o) = {} =>
                                /\ outcome[o].v.tag = "Err"
                                /\ outcome[o].v.e \in OwnErrors(o) )
    /\ [][ \A o \in Ops : TwoPoll(o) =>
              /\ Len(calls') <= Len(calls) + 1
              /\ SubSeq(calls', 1, Len(calls)) = calls
              /\ (\A i \in Own(o) : calls[i].resp # Pending) =>
                    (phase'[o] = "done" \/ Len(calls') > Len(calls)) ]_vars

C17_Witness ==
    /\ \A o \in Ops : (builder[o].sign # None /\ builder[o].sign.v.tag = "Offline")
    /\ owner # <<>> /\ owner[1] = 1
    /\ phase[1] = "executing" /\ state[1] = "Prepare" /\ polled[1]
    /\ OwnResp(1, "eth_getTransactionCount") = Pending
    /\ phase[2] = "done" /\ outcome[2] = Some(Ok("hash1"))
    /\ OwnResp(2, "eth_getTransactionCount") = Ok(1)

====
